---- MODULE Spec2Model ----
(***************************************************************************)
(* The dashboard component App of src/App.tsx as a state machine: the five *)
(* useState cells (status, logs, service, loading, error), the polling     *)
(* effect (three fetches at mount and on every interval tick, clearInterval*)
(* on cleanup), the three asynchronous fetch handlers, whose completions   *)
(* interleave freely, and the derivation of the "Core Model" card.         *)
(*                                                                         *)
(* Time is counted in seconds; the 5000 ms period is Interval == 5.        *)
(* A string that the code inspects character by character (the model       *)
(* identifier) is a sequence of one-character strings.                     *)
(***************************************************************************)
EXTENDS Integers, Sequences, FiniteSets, TLC

VARIABLES
    status,     \* useState<SystemStatus | null>: None or Some(payload)
    logs,       \* useState<string>
    service,    \* useState<string>
    loading,    \* useState(true)
    error,      \* useState<string | null>: None or Some(message)
    phase,      \* "created" (rendered, effect not yet run), "mounted", "unmounted"
    now,        \* the clock, in seconds since the effect ran (t = 0 is the mount)
    interval,   \* the setInterval timer: None, or Some(time of its next callback)
    issued,     \* per resource, the number of fetch() calls made so far
    inflight,   \* per resource, the requests (by issue index) not yet settled
    coreModel,  \* the value of the "Core Model" card in the last render
    last        \* the most recent settled request: resource, issue index, outcome

vars == <<status, logs, service, loading, error, phase, now, interval, issued,
          inflight, coreModel, last>>

-----------------------------------------------------------------------------
(* Bounds of the exploration *)

\* The clock of Spec stops here: two polling rounds (t = 0 and t = 5).
MaxTime == 5
\* The clock of SpecCadence stops here: the window of the cadence claim.
Window == 20
\* The longest model identifier SpecLabel feeds to the label derivation.
MaxModelLen == 4

-----------------------------------------------------------------------------
(* Values *)

None == <<>>
Some(x) == <<x>>

\* setInterval(..., 5000), in seconds
Interval == 5

Kinds == {"status", "logs", "service"}

Session(k, n) == [key |-> k, message_count |-> n, updated |-> 1000, created |-> 1000]

Subagent(i, l) == [id |-> i, task |-> "t", label |-> l, status |-> "running", created |-> 1000]

\* Two /admin/status payloads that share no session and no subagent.
P1 == [model |-> <<"a", "-", "b">>, ready |-> TRUE,
       sessions |-> <<Session("s1", 1)>>, subagents |-> <<Subagent("g1", "one")>>,
       uptime |-> "1m", workspace |-> "/w"]

P2 == [model |-> <<"b", "-", "a">>, ready |-> FALSE,
       sessions |-> <<Session("s2", 2), Session("s3", 3)>>, subagents |-> <<>>,
       uptime |-> "2m", workspace |-> "/w"]

StatusPayloads == {P1, P2}

ModelChars == {"a", "b", "-"}

ModelStrings == UNION {[1..n -> ModelChars] : n \in 0..MaxModelLen}

\* Payloads that differ only in the model identifier.
LabelPayloads == {[P1 EXCEPT !.model = m] : m \in ModelStrings}

\* A response body: text that JSON.parse rejects, or the parsed value.
Unparseable == [parses |-> FALSE]
Parsed(d) == [parses |-> TRUE, data |-> d]

\* Parsed bodies of /admin/logs and /admin/service: JSON null, an object
\* without "output", an object with "output".
JsonNull == [isNull |-> TRUE]
JsonObject(out) == [isNull |-> FALSE, output |-> out]
Outputs == {"", "a", "b"}
TextData == {JsonNull, JsonObject(None)} \cup {JsonObject(Some(t)) : t \in Outputs}

\* What a fetch() can come back with: the promise rejects (network failure),
\* or it resolves with res.ok and a body.
Rejected == [rejected |-> TRUE]
Resolved(o, b) == [rejected |-> FALSE, ok |-> o, body |-> b]

StatusResponsesOf(payloads) ==
    {Rejected} \cup {Resolved(o, b) : o \in BOOLEAN,
                                      b \in {Unparseable} \cup {Parsed(p) : p \in payloads}}

StatusResponses == StatusResponsesOf(StatusPayloads)

LabelResponses == StatusResponsesOf(LabelPayloads)

TextResponses ==
    {Rejected} \cup {Resolved(o, b) : o \in BOOLEAN,
                                      b \in {Unparseable} \cup {Parsed(d) : d \in TextData}}

\* err.message of the TypeError a rejected fetch() carries, of the Error
\* thrown on !res.ok, and of the SyntaxError res.json() throws.
NetworkMessage == "Failed to fetch"
HttpMessage == "Failed to fetch status"
SyntaxMessage == "Unexpected token"

-----------------------------------------------------------------------------
(* The Core Model card: status?.model.split('-')[1].toUpperCase() || 'N/A' *)

RECURSIVE SplitFrom(_, _, _)
SplitFrom(s, i, cur) ==
    IF i > Len(s) THEN <<cur>>
    ELSE IF s[i] = "-" THEN <<cur>> \o SplitFrom(s, i + 1, <<>>)
    ELSE SplitFrom(s, i + 1, Append(cur, s[i]))

\* String.prototype.split('-'): the segments between hyphens, empty ones kept
split(s) == SplitFrom(s, 1, <<>>)

Upper(c) == CASE c = "a" -> "A" [] c = "b" -> "B" [] OTHER -> c

toUpperCase(s) == [i \in 1..Len(s) |-> Upper(s[i])]

NA == <<"N", "/", "A">>

Threw == [threw |-> TRUE, text |-> <<>>]
Text(t) == [threw |-> FALSE, text |-> t]

\* st is the status cell.  With no status the optional chain yields undefined
\* and the fallback is rendered; with a status, segment [1] is read without a
\* check, so a model with no hyphen calls toUpperCase on undefined.
CoreModelValue(st) ==
    IF st = None THEN Text(NA)
    ELSE LET segs == split(st[1].model) IN
         IF Len(segs) < 2 THEN Threw
         ELSE IF toUpperCase(segs[2]) = <<>> THEN Text(NA)
         ELSE Text(toUpperCase(segs[2]))

\* The render of a view state v: the initializing placeholder (no card), or
\* the dashboard with its Core Model card.
Render(v) ==
    IF v.loading /\ v.status = None THEN None
    ELSE Some(CoreModelValue(v.status))

-----------------------------------------------------------------------------
(* The view state and the three fetch handlers *)

View == [status |-> status, logs |-> logs, service |-> service,
         loading |-> loading, error |-> error]

Apply(v) ==
    /\ status' = v.status
    /\ logs' = v.logs
    /\ service' = v.service
    /\ loading' = v.loading
    /\ error' = v.error
    /\ coreModel' = Render(v)

\* data.output || ''
OutputOrEmpty(d) == IF d.output = None THEN "" ELSE d.output[1]

\* Faults of fetchStatus: a failure that drops the snapshot; a success that
\* appends to the previous snapshot's lists; loading cleared on success only.
fetchStatusClearing(v, resp) ==
    IF resp.rejected
    THEN [v EXCEPT !.status = None, !.error = Some(NetworkMessage), !.loading = FALSE]
    ELSE IF ~resp.ok
    THEN [v EXCEPT !.status = None, !.error = Some(HttpMessage), !.loading = FALSE]
    ELSE IF ~resp.body.parses
    THEN [v EXCEPT !.status = None, !.error = Some(SyntaxMessage), !.loading = FALSE]
    ELSE [v EXCEPT !.status = Some(resp.body.data), !.error = None, !.loading = FALSE]

fetchStatusMerging(v, resp) ==
    IF resp.rejected
    THEN [v EXCEPT !.error = Some(NetworkMessage), !.loading = FALSE]
    ELSE IF ~resp.ok
    THEN [v EXCEPT !.error = Some(HttpMessage), !.loading = FALSE]
    ELSE IF ~resp.body.parses
    THEN [v EXCEPT !.error = Some(SyntaxMessage), !.loading = FALSE]
    ELSE IF v.status = None
    THEN [v EXCEPT !.status = Some(resp.body.data), !.error = None, !.loading = FALSE]
    ELSE [v EXCEPT !.status = Some([resp.body.data EXCEPT
                                      !.sessions = v.status[1].sessions \o @,
                                      !.subagents = v.status[1].subagents \o @]),
                   !.error = None, !.loading = FALSE]

fetchStatusNoFinally(v, resp) ==
    IF resp.rejected
    THEN [v EXCEPT !.error = Some(NetworkMessage)]
    ELSE IF ~resp.ok
    THEN [v EXCEPT !.error = Some(HttpMessage)]
    ELSE IF ~resp.body.parses
    THEN [v EXCEPT !.error = Some(SyntaxMessage)]
    ELSE [v EXCEPT !.status = Some(resp.body.data), !.error = None, !.loading = FALSE]

\* fetchStatus, from the point where fetch() settles with resp
fetchStatus(v, resp) ==
    IF resp.rejected
    THEN [v EXCEPT !.error = Some(NetworkMessage), !.loading = FALSE]
    ELSE IF ~resp.ok
    THEN [v EXCEPT !.error = Some(HttpMessage), !.loading = FALSE]
    ELSE IF ~resp.body.parses
    THEN [v EXCEPT !.error = Some(SyntaxMessage), !.loading = FALSE]
    ELSE [v EXCEPT !.status = Some(resp.body.data), !.error = None, !.loading = FALSE]

\* A fault of fetchLogs: its catch reports the failure as fetchStatus does.
fetchLogsReporting(v, resp) ==
    IF resp.rejected THEN [v EXCEPT !.error = Some(NetworkMessage)]
    ELSE IF ~resp.body.parses THEN [v EXCEPT !.error = Some(SyntaxMessage)]
    ELSE IF resp.body.data.isNull THEN [v EXCEPT !.error = Some(SyntaxMessage)]
    ELSE [v EXCEPT !.logs = OutputOrEmpty(resp.body.data)]

\* fetchLogs, from the point where fetch() settles with resp: res.ok is not
\* looked at; a rejected fetch, an unparseable body and a null body (reading
\* .output of null throws) all end in the empty catch.
fetchLogs(v, resp) ==
    IF resp.rejected THEN v
    ELSE IF ~resp.body.parses THEN v
    ELSE IF resp.body.data.isNull THEN v
    ELSE [v EXCEPT !.logs = OutputOrEmpty(resp.body.data)]

\* fetchService: as fetchLogs, for the service text
fetchService(v, resp) ==
    IF resp.rejected THEN v
    ELSE IF ~resp.body.parses THEN v
    ELSE IF resp.body.data.isNull THEN v
    ELSE [v EXCEPT !.service = OutputOrEmpty(resp.body.data)]

-----------------------------------------------------------------------------
(* Polling *)

\* A fault of the round: a resource with a request outstanding is skipped.
callFetchesIdleOnly ==
    [issued |-> [k \in Kinds |-> IF inflight[k] = {} THEN issued[k] + 1 ELSE issued[k]],
     inflight |-> [k \in Kinds |-> IF inflight[k] = {} THEN {issued[k]} ELSE inflight[k]]]

\* fetchStatus(); fetchLogs(); fetchService(): one request per resource
callFetches ==
    [issued |-> [k \in Kinds |-> issued[k] + 1],
     inflight |-> [k \in Kinds |-> inflight[k] \cup {issued[k]}]]

Init ==
    /\ status = None
    /\ logs = ""
    /\ service = ""
    /\ loading = TRUE
    /\ error = None
    /\ phase = "created"
    /\ now = 0
    /\ interval = None
    /\ issued = [k \in Kinds |-> 0]
    /\ inflight = [k \in Kinds |-> {}]
    /\ coreModel = None
    /\ last = [kind |-> "none", round |-> 0, ok |-> FALSE]

\* The effect body: the three fetches, then setInterval
Mount ==
    /\ phase = "created"
    /\ phase' = "mounted"
    /\ issued' = callFetches.issued
    /\ inflight' = callFetches.inflight
    /\ interval' = Some(now + Interval)
    /\ UNCHANGED <<status, logs, service, loading, error, now, coreModel, last>>

\* The interval callback
TimerFire ==
    /\ interval # None
    /\ now = interval[1]
    /\ issued' = callFetches.issued
    /\ inflight' = callFetches.inflight
    /\ interval' = Some(now + Interval)
    /\ UNCHANGED <<status, logs, service, loading, error, phase, now, coreModel, last>>

\* A fault of the cleanup: the timer is left armed.
UnmountLeak ==
    /\ phase = "mounted"
    /\ phase' = "unmounted"
    /\ UNCHANGED <<status, logs, service, loading, error, now, interval, issued,
                   inflight, coreModel, last>>

\* The effect's cleanup: clearInterval(interval)
Unmount ==
    /\ phase = "mounted"
    /\ phase' = "unmounted"
    /\ interval' = None
    /\ UNCHANGED <<status, logs, service, loading, error, now, issued, inflight,
                   coreModel, last>>

\* One second passes.  The effect runs right after the first render, so the
\* clock starts with it; a due interval callback runs before time moves on.
Advance(limit) ==
    /\ phase # "created"
    /\ now < limit
    /\ interval # None => now < interval[1]
    /\ now' = now + 1
    /\ UNCHANGED <<status, logs, service, loading, error, phase, interval, issued,
                   inflight, coreModel, last>>

\* Whether the handler reached its setter
StatusOk(resp) == ~resp.rejected /\ resp.ok /\ resp.body.parses
TextApplied(resp) == ~resp.rejected /\ resp.body.parses /\ ~resp.body.data.isNull

Settled(k, r) == [inflight EXCEPT ![k] = @ \ {r}]

\* A fault of the completion: a response is dropped when a request issued
\* later has already settled (a sequence check the code does not have).
SettleStatusSeq(r, resp) ==
    /\ r \in inflight["status"]
    /\ inflight' = Settled("status", r)
    /\ IF \E n \in 0..(issued["status"] - 1) : n > r /\ n \notin inflight["status"]
       THEN Apply(View)
       ELSE Apply(fetchStatus(View, resp))
    /\ last' = [kind |-> "status", round |-> r, ok |-> StatusOk(resp)]
    /\ UNCHANGED <<phase, now, interval, issued>>

\* Request r of /admin/status settles with resp and fetchStatus runs to its end.
SettleStatus(r, resp) ==
    /\ r \in inflight["status"]
    /\ inflight' = Settled("status", r)
    /\ Apply(fetchStatus(View, resp))
    /\ last' = [kind |-> "status", round |-> r, ok |-> StatusOk(resp)]
    /\ UNCHANGED <<phase, now, interval, issued>>

SettleLogs(r, resp) ==
    /\ r \in inflight["logs"]
    /\ inflight' = Settled("logs", r)
    /\ Apply(fetchLogs(View, resp))
    /\ last' = [kind |-> "logs", round |-> r, ok |-> TextApplied(resp)]
    /\ UNCHANGED <<phase, now, interval, issued>>

SettleService(r, resp) ==
    /\ r \in inflight["service"]
    /\ inflight' = Settled("service", r)
    /\ Apply(fetchService(View, resp))
    /\ last' = [kind |-> "service", round |-> r, ok |-> TextApplied(resp)]
    /\ UNCHANGED <<phase, now, interval, issued>>

StatusSettles == \E r \in inflight["status"], resp \in StatusResponses : SettleStatus(r, resp)
LogsSettles == \E r \in inflight["logs"], resp \in TextResponses : SettleLogs(r, resp)
ServiceSettles == \E r \in inflight["service"], resp \in TextResponses : SettleService(r, resp)

Tick == Advance(MaxTime)

Next ==
    \/ Mount
    \/ TimerFire
    \/ Unmount
    \/ Tick
    \/ StatusSettles
    \/ LogsSettles
    \/ ServiceSettles

Spec == Init /\ [][Next]_vars

-----------------------------------------------------------------------------
(* The same component on a responsive network: every request settles within *)
(* the second it was issued in, so the clock can run for the whole window.  *)

NoOutstanding == \A k \in Kinds : inflight[k] = {}

Elapse == NoOutstanding /\ Advance(Window)

NextCadence ==
    \/ Mount
    \/ TimerFire
    \/ Unmount
    \/ Elapse
    \/ StatusSettles
    \/ LogsSettles
    \/ ServiceSettles

SpecCadence == Init /\ [][NextCadence]_vars

-----------------------------------------------------------------------------
(* The first status response, with every model identifier up to MaxModelLen *)

LabelSettles == \E r \in inflight["status"], resp \in LabelResponses : SettleStatus(r, resp)

NextLabel ==
    \/ Mount
    \/ LabelSettles

SpecLabel == Init /\ [][NextLabel]_vars

-----------------------------------------------------------------------------
(* Properties *)

\* A failed fetch in the words of the specification: network failure,
\* non-success HTTP status, or a body that does not parse.
Failed(resp) == resp.rejected \/ ~resp.ok \/ ~resp.body.parses

\* Request r of resource k was overtaken: a request issued after it has
\* already settled.
Overtaken(k, r) == \E n \in 0..(issued[k] - 1) : n > r /\ n \notin inflight[k]

\* C1: when a status fetch fails (network error, non-success HTTP status or
\* unparseable body) after an earlier one succeeded, status keeps the last
\* applied snapshot and error becomes a non-empty message.
C1_FailureKeepsSnapshot ==
    [][\A r \in inflight["status"], resp \in StatusResponses :
          (status # None /\ Failed(resp) /\ SettleStatus(r, resp))
              => (status' = status /\ error' # None /\ error'[1] # "")]_vars

C1_Witness ==
    /\ last.kind = "status" /\ ~last.ok
    /\ status = Some(P1)
    /\ error = Some(HttpMessage)

\* C2: when a status fetch succeeds, status becomes exactly the payload of
\* that response and error becomes absent, whatever the state was before.
C2_SuccessReplacesWholesale ==
    [][\A r \in inflight["status"], resp \in StatusResponses :
          (StatusOk(resp) /\ SettleStatus(r, resp))
              => (status' = Some(resp.body.data) /\ error' = None)]_vars

\* A second-round success shown after the first round's request had settled.
C2_Witness ==
    /\ last = [kind |-> "status", round |-> 1, ok |-> TRUE]
    /\ 0 \notin inflight["status"]
    /\ status = Some(P2)
    /\ error = None

\* C3: when a logs fetch fails (network failure, non-success HTTP status or
\* parse failure) the log text keeps its value, status and the service text
\* are unaffected and error is not written; the same for the service fetch
\* and the service text.
C3_TextFailureRetains ==
    [][\A resp \in TextResponses : (phase = "mounted" /\ Failed(resp)) =>
          /\ \A r \in inflight["logs"] : SettleLogs(r, resp)
                => (logs' = logs /\ status' = status /\ service' = service
                    /\ error' = error)
          /\ \A r \in inflight["service"] : SettleService(r, resp)
                => (service' = service /\ status' = status /\ logs' = logs
                    /\ error' = error)]_vars

\* C4: one round of three fetches at mount and one more every Interval
\* seconds: while mounted, once the due callback has run, each resource has
\* had 1 + now \div Interval requests (5 at t = 20); after teardown no
\* further fetch is issued.
C4_PollingCadence ==
    /\ [](phase = "mounted" /\ interval # None /\ interval[1] > now
            => \A k \in Kinds : issued[k] = 1 + (now \div Interval))
    /\ [](phase = "mounted" /\ interval # None /\ interval[1] > now
          /\ now = 4 * Interval
            => \A k \in Kinds : issued[k] = 5)
    /\ [][phase = "unmounted" => (issued' = issued /\ \A k \in Kinds : inflight'[k] \subseteq inflight[k])]_vars

C4_Witness ==
    /\ phase = "mounted"
    /\ now = 4 * Interval
    /\ \A k \in Kinds : issued[k] = 5

\* C5: loading is true from construction until the first status fetch
\* settles and false in every state after that, whether that fetch succeeded
\* or failed; settling logs or service requests does not change it.  Stated on
\* states: loading holds exactly while every status request issued so far is
\* still outstanding.
C5_LoadingUntilFirstStatusSettles ==
    loading <=> (inflight["status"] = 0..(issued["status"] - 1))

\* The first status fetch failed, a logs fetch settled after it.
C5_Witness ==
    /\ ~loading
    /\ status = None
    /\ error # None
    /\ last.kind = "logs"

\* C6: for a model string with a hyphen the label is the uppercase of the
\* text after the first hyphen; for a model string with no hyphen the label
\* is "N/A" and the derivation does not throw.
HasHyphen(m) == \E i \in 1..Len(m) : m[i] = "-"
FirstHyphen(m) == CHOOSE i \in 1..Len(m) : m[i] = "-" /\ \A j \in 1..(i - 1) : m[j] # "-"
AfterFirstHyphen(m) == SubSeq(m, FirstHyphen(m) + 1, Len(m))

C6_ModelLabel ==
    (status # None /\ coreModel # None) =>
        LET m == status[1].model IN
        IF HasHyphen(m)
        THEN coreModel[1] = Text(toUpperCase(AfterFirstHyphen(m)))
        ELSE coreModel[1] = Text(NA)

\* C7: every polling round issues all three requests whatever is outstanding
\* or has failed, and nothing disarms the timer but teardown: while mounted
\* the timer is armed and its due callback can run.
C7_RoundsUnconditional ==
    /\ [][(interval' # None /\ interval' # interval)
            => \A k \in Kinds : /\ issued'[k] = issued[k] + 1
                                /\ inflight'[k] = inflight[k] \cup {issued[k]}]_vars
    /\ [](phase = "mounted"
            => (interval # None /\ (now = interval[1] => ENABLED TimerFire)))

\* The second round went out after a failed status fetch and with first-round
\* logs and service requests still outstanding.
C7_Witness ==
    /\ issued["status"] = 2
    /\ 1 \in inflight["status"]
    /\ error # None
    /\ {0, 1} \subseteq inflight["logs"]
    /\ {0, 1} \subseteq inflight["service"]

\* C8: a response is applied when it resolves, also when a request issued
\* later for the same resource has already settled: the older response then
\* overwrites the newer one (status and error, logs, service).
C8_LastWriteWins ==
    [][/\ \A r \in inflight["status"], resp \in StatusResponses :
            (Overtaken("status", r) /\ SettleStatus(r, resp))
                => IF StatusOk(resp)
                   THEN status' = Some(resp.body.data) /\ error' = None
                   ELSE status' = status /\ error' # None
       /\ \A r \in inflight["logs"], resp \in TextResponses :
            (Overtaken("logs", r) /\ TextApplied(resp) /\ SettleLogs(r, resp))
                => logs' = OutputOrEmpty(resp.body.data)
       /\ \A r \in inflight["service"], resp \in TextResponses :
            (Overtaken("service", r) /\ TextApplied(resp) /\ SettleService(r, resp))
                => service' = OutputOrEmpty(resp.body.data)]_vars

\* The first round's status response arrived after the second round's and is
\* the one displayed.
C8_Witness ==
    /\ last = [kind |-> "status", round |-> 0, ok |-> TRUE]
    /\ issued["status"] = 2
    /\ inflight["status"] = {}
    /\ status = Some(P1)

\* C9: after teardown, the resolution of a request that was in flight
\* changes no field of the view state.
C9_NoWriteAfterTeardown ==
    [][phase = "unmounted" => UNCHANGED <<status, logs, service, loading, error>>]_vars

\* C10: a status completion leaves logs and service unchanged; a logs
\* completion leaves status, error, loading and service unchanged; a service
\* completion leaves status, error, loading and logs unchanged; so error is
\* written only by status completions.
C10_HandlersWriteOwnFields ==
    [][/\ \A r \in inflight["status"], resp \in StatusResponses :
            SettleStatus(r, resp) => UNCHANGED <<logs, service>>
       /\ \A r \in inflight["logs"], resp \in TextResponses :
            SettleLogs(r, resp) => UNCHANGED <<status, error, loading, service>>
       /\ \A r \in inflight["service"], resp \in TextResponses :
            SettleService(r, resp) => UNCHANGED <<status, error, loading, logs>>
       /\ error' # error =>
            \E r \in inflight["status"], resp \in StatusResponses : SettleStatus(r, resp)]_vars

\* A logs response was applied next to a stale snapshot, an error and a
\* service text, all of which are still there.
C10_Witness ==
    /\ last.kind = "logs" /\ last.ok
    /\ logs = "a"
    /\ service = "b"
    /\ status = Some(P1)
    /\ error = Some(NetworkMessage)

====
